---- MODULE Spec2Model ----
(***************************************************************************)
(* Model of capacitor-secure-storage: the Android engine (AES-GCM over     *)
(* SharedPreferences with a KeyStore master key), the iOS engine (Keychain *)
(* generic-password items) and the web engine (prefixed localStorage),     *)
(* each behind its plugin bridge.                                          *)
(***************************************************************************)
EXTENDS Integers, Sequences, FiniteSets, TLC

\* ---------------------------------------------------------------- bounds
\* longest value a caller passes to set
MaxValLen == 1
\* number of distinct IVs the cipher may draw
MaxNonce == 1
\* master keys the KeyStore generates over the whole run
MaxKeyGen == 2
\* stored texts altered from outside over the whole run
MaxDamage == 1

\* ------------------------------------------------------- program constants
GCM_IV_LENGTH == 12
GCM_TAG_LENGTH == 128
storagePrefix == <<"cap_secureStorage_">>
serviceIdentifier == "SecureStoragePlugin"

\* ---------------------------------------------------------------- strings
\* A string is a sequence of UTF-16 code units.  "D800" is an unpaired
\* surrogate, which Java and JavaScript strings may hold.
Null == <<"<null>">>
Chars == {"a", "D800"}
SeqsUpTo(S, n) == UNION {[1..m -> S] : m \in 0..n}
Values == SeqsUpTo(Chars, MaxValLen)
Keys == {<<"a">>, <<"b">>}
Nonces == 1..MaxNonce

\* String.getBytes(): UTF-8 on Android; an unencodable code unit becomes '?'.
EncodeUnit(c) == CASE c = "a" -> 97 [] c = "?" -> 63 [] OTHER -> 63
getBytes(s) == [i \in 1..Len(s) |-> EncodeUnit(s[i])]
\* new String(byte[]): UTF-8 decoding.
DecodeByte(b) == CASE b = 97 -> "a" [] b = 63 -> "?" [] OTHER -> "FFFD"
newString(bs) == [i \in 1..Len(bs) |-> DecodeByte(bs[i])]

\* ------------------------------------------------------------- AES-GCM
\* Symbolic cipher: a ciphertext names the key, IV and plaintext it was
\* made from and whether a bit of it was flipped since (x = 1); a tag is the
\* MAC over the same and carries its own flip mark.
Encrypt(k, n, pt) ==
  [ct |-> [k |-> k, n |-> n, pt |-> pt, x |-> 0],
   tag |-> [k |-> k, n |-> n, pt |-> pt, x |-> 0]]

TagValid(k, n, ct, tag) ==
  /\ tag.x = 0 /\ ct.x = 0
  /\ tag.k = k /\ tag.n = n
  /\ ct.k = k /\ ct.n = n /\ ct.pt = tag.pt

\* The counter-mode keystream applied to a ciphertext: the plaintext when
\* key, IV and ciphertext are the original ones, other bytes otherwise.
Garbled(pt) == [i \in 1..Len(pt) |-> 33]
CtrDecrypt(k, n, ct) ==
  IF ct.k = k /\ ct.n = n /\ ct.x = 0 THEN ct.pt ELSE Garbled(ct.pt)

\* Cipher.doFinal in DECRYPT_MODE: plaintext, or AEADBadTagException.
DoFinalDecrypt(k, n, ct, tag, whole) ==
  IF whole /\ TagValid(k, n, ct, tag)
  THEN [ok |-> TRUE, pt |-> CtrDecrypt(k, n, ct)]
  ELSE [ok |-> FALSE, pt |-> <<>>]

\* ------------------------------------------- stored strings (Android)
\* What SharedPreferences holds for a key: the Base64 text of
\* IV ++ ciphertext ++ tag.  b64 = FALSE is a text Base64.decode rejects;
\* trunc says where the decoded bytes end: "none" (whole), "tag" (inside the
\* ciphertext-and-tag part), "iv" (inside the IV).
NoBlob == [present |-> FALSE, b64 |-> TRUE, trunc |-> "none", iv |-> 0,
           ct |-> [k |-> 0, n |-> 0, pt |-> <<>>, x |-> 0],
           tag |-> [k |-> 0, n |-> 0, pt |-> <<>>, x |-> 0]]

\* Base64.encodeToString(iv ++ encryptedBytes)
Combine(iv, enc) ==
  [present |-> TRUE, b64 |-> TRUE, trunc |-> "none", iv |-> iv,
   ct |-> enc.ct, tag |-> enc.tag]

TagBytes == GCM_TAG_LENGTH \div 8
CombinedLength(blob) ==
  CASE blob.trunc = "none" -> GCM_IV_LENGTH + Len(blob.ct.pt) + TagBytes
    [] blob.trunc = "tag" -> GCM_IV_LENGTH + Len(blob.ct.pt)
    [] OTHER -> GCM_IV_LENGTH - 1

\* The same record byte by byte.  A byte is named by the part it belongs
\* to and its place in it: <<"iv", i>>, <<"ct", i>>, <<"tag", i>>; <<"zero", 0>>
\* is a byte of a fresh array.
newBytes(len) == [i \in 1..len |-> <<"zero", 0>>]
\* cipher.getIV()
getIV == [i \in 1..GCM_IV_LENGTH |-> <<"iv", i>>]
\* cipher.doFinal(plaintext) in ENCRYPT_MODE: the ciphertext, as long as
\* the plaintext, then the tag.
doFinalBytes(pt) ==
  [i \in 1..(Len(pt) + TagBytes) |->
     IF i <= Len(pt) THEN <<"ct", i>> ELSE <<"tag", i - Len(pt)>>]
\* System.arraycopy(src, srcPos, dest, destPos, length), positions from 0
arraycopy(src, srcPos, dest, destPos, length) ==
  [j \in 1..Len(dest) |->
     IF destPos < j /\ j <= destPos + length
     THEN src[srcPos + (j - destPos)] ELSE dest[j]]
\* set: combined = iv ++ encryptedBytes
combinedBytes(iv, encryptedBytes) ==
  arraycopy(encryptedBytes, 0,
            arraycopy(iv, 0,
                      newBytes(GCM_IV_LENGTH + Len(encryptedBytes)),
                      0, GCM_IV_LENGTH),
            GCM_IV_LENGTH, Len(encryptedBytes))
\* get: the IV and the encrypted bytes taken out of combined
ivOf(combined) ==
  arraycopy(combined, 0, newBytes(GCM_IV_LENGTH), 0, GCM_IV_LENGTH)

\* encOf reading from the tag length on instead of the IV length.
encOf_AtTagLength(combined) ==
  arraycopy(combined, TagBytes, newBytes(Len(combined) - TagBytes), 0,
            Len(combined) - TagBytes)

encOf(combined) ==
  arraycopy(combined, GCM_IV_LENGTH,
            newBytes(Len(combined) - GCM_IV_LENGTH), 0,
            Len(combined) - GCM_IV_LENGTH)

\* ------------------------------------------------ Android SecureStorage
\* Result of an engine call: the preferences afterwards, the value returned,
\* the exception that escapes the method ("none" when it returns normally)
\* and the exception its own catch block logged and swallowed.
Outcome(p, r, e, l) == [prefs |-> p, ret |-> r, exc |-> e, log |-> l]

\* SecureStorage.remove: sharedPreferences.edit().remove(key).apply()
Android_remove(prefs, ctorOk, key) ==
  IF ~ctorOk THEN Outcome(prefs, Null, "NullPointerException", "none")
  ELSE Outcome([prefs EXCEPT ![key] = NoBlob], Null, "none", "none")

\* Android_set passing an all-zero IV (IV 0) to the cipher instead of taking
\* the one the cipher generates.
Android_set_ZeroIv(prefs, ctorOk, aks, key, value, n) ==
  IF value = Null THEN Android_remove(prefs, ctorOk, key)
  ELSE IF ~ctorOk THEN Outcome(prefs, Null, "NullPointerException", "none")
  ELSE IF aks = 0 THEN Outcome(prefs, Null, "none", "InvalidKeyException")
  ELSE Outcome([prefs EXCEPT
                  ![key] = Combine(0, Encrypt(aks, 0, getBytes(value)))],
               Null, "none", "none")

\* Android_set encrypting under a key built into the code (key 0) instead
\* of the KeyStore's.
Android_set_BuiltInKey(prefs, ctorOk, aks, key, value, n) ==
  IF value = Null THEN Android_remove(prefs, ctorOk, key)
  ELSE IF ~ctorOk THEN Outcome(prefs, Null, "NullPointerException", "none")
  ELSE Outcome([prefs EXCEPT
                  ![key] = Combine(n, Encrypt(0, n, getBytes(value)))],
               Null, "none", "none")

\* SecureStorage.set.  aks is the key under MASTER_KEY_ALIAS in the Android
\* KeyStore (0: no such alias, getKey returns null and cipher.init throws
\* InvalidKeyException); n is the IV the cipher draws.
Android_set(prefs, ctorOk, aks, key, value, n) ==
  IF value = Null THEN Android_remove(prefs, ctorOk, key)
  ELSE IF ~ctorOk THEN Outcome(prefs, Null, "NullPointerException", "none")
  ELSE IF aks = 0 THEN Outcome(prefs, Null, "none", "InvalidKeyException")
  ELSE Outcome([prefs EXCEPT
                  ![key] = Combine(n, Encrypt(aks, n, getBytes(value)))],
               Null, "none", "none")

\* SecureStorage.get
Android_get(prefs, ctorOk, aks, key) ==
  LET blob == prefs[key]
      dec == DoFinalDecrypt(aks, blob.iv, blob.ct, blob.tag,
                            blob.trunc = "none")
  IN  IF ~ctorOk THEN Outcome(prefs, Null, "NullPointerException", "none")
      ELSE IF ~blob.present THEN Outcome(prefs, Null, "none", "none")
      ELSE IF ~blob.b64
        THEN Outcome(prefs, Null, "IllegalArgumentException", "none")
      ELSE IF CombinedLength(blob) < GCM_IV_LENGTH
        THEN Outcome(prefs, Null, "none", "none")
      ELSE IF aks = 0
        THEN Outcome(prefs, Null, "none", "InvalidKeyException")
      ELSE IF ~dec.ok
        THEN Outcome(prefs, Null, "none", "AEADBadTagException")
      ELSE Outcome(prefs, newString(dec.pt), "none", "none")

\* SecureStorage.clear: sharedPreferences.edit().clear().apply()
Android_clear(prefs, ctorOk) ==
  IF ~ctorOk THEN Outcome(prefs, Null, "NullPointerException", "none")
  ELSE Outcome([k \in Keys |-> NoBlob], Null, "none", "none")

\* SecureStorage.keys: sharedPreferences.getAll().keySet()
Android_keys(prefs, ctorOk) ==
  IF ~ctorOk THEN [keys |-> {}, exc |-> "NullPointerException", log |-> "none"]
  ELSE [keys |-> {k \in Keys : prefs[k].present}, exc |-> "none",
        log |-> "none"]

\* ---------------------------------------------------- iOS SecureStorage
\* Swift strings are valid Unicode: no unpaired surrogate.
SwiftChars == {"a", "?"}
SwiftValues == SeqsUpTo(SwiftChars, MaxValLen)
Services == {serviceIdentifier, "OtherService"}
Items == [svc : Services, acct : Keys]
NoData == <<-1>>
Item(key) == [svc |-> serviceIdentifier, acct |-> key]

\* value.data(using: .utf8) and String(data:encoding: .utf8)
dataUtf8(s) == [i \in 1..Len(s) |-> EncodeUnit(s[i])]
stringUtf8(d) == [i \in 1..Len(d) |-> DecodeByte(d[i])]

\* Keychain calls.  fail = TRUE: the call returns a status other than
\* errSecSuccess, errSecItemNotFound and errSecDuplicateItem, and changes
\* nothing.
SecItemDelete(kc, del, fail) ==
  IF fail THEN [kc |-> kc, status |-> "error"]
  ELSE IF \A i \in del : kc[i] = NoData
    THEN [kc |-> kc, status |-> "errSecItemNotFound"]
  ELSE [kc |-> [i \in Items |-> IF i \in del THEN NoData ELSE kc[i]],
        status |-> "errSecSuccess"]

SecItemAdd(kc, item, data, fail) ==
  IF fail THEN [kc |-> kc, status |-> "error"]
  ELSE IF kc[item] # NoData THEN [kc |-> kc, status |-> "errSecDuplicateItem"]
  ELSE [kc |-> [kc EXCEPT ![item] = data], status |-> "errSecSuccess"]

SecItemCopyMatching(kc, item, fail) ==
  IF fail THEN [data |-> NoData, status |-> "error"]
  ELSE IF kc[item] = NoData
    THEN [data |-> NoData, status |-> "errSecItemNotFound"]
  ELSE [data |-> kc[item], status |-> "errSecSuccess"]

\* SecureStorage.set whose delete query names the service but not the
\* account, so that it matches every item of the plugin.
Ios_set_DeletesService(kc, key, value, failDel, failAdd) ==
  LET d == SecItemDelete(kc, {i \in Items : i.svc = serviceIdentifier},
                         failDel)
      a == SecItemAdd(d.kc, Item(key), dataUtf8(value), failAdd)
  IN  [kc |-> a.kc, ok |-> a.status = "errSecSuccess"]

\* SecureStorage.set: delete any existing item, then add the new one.
Ios_set(kc, key, value, failDel, failAdd) ==
  LET d == SecItemDelete(kc, {Item(key)}, failDel)
      a == SecItemAdd(d.kc, Item(key), dataUtf8(value), failAdd)
  IN  [kc |-> a.kc, ok |-> a.status = "errSecSuccess"]

\* SecureStorage.get
Ios_get(kc, key, fail) ==
  LET r == SecItemCopyMatching(kc, Item(key), fail)
  IN  IF r.status = "errSecSuccess" THEN stringUtf8(r.data) ELSE Null

\* Ios_remove counting only errSecSuccess as success.
Ios_remove_NotFoundFails(kc, key, fail) ==
  LET d == SecItemDelete(kc, {Item(key)}, fail)
  IN  [kc |-> d.kc, ok |-> d.status = "errSecSuccess"]

\* SecureStorage.remove
Ios_remove(kc, key, fail) ==
  LET d == SecItemDelete(kc, {Item(key)}, fail)
  IN  [kc |-> d.kc,
       ok |-> d.status = "errSecSuccess" \/ d.status = "errSecItemNotFound"]

\* SecureStorage.clear
Ios_clear(kc, fail) ==
  LET d == SecItemDelete(kc, {i \in Items : i.svc = serviceIdentifier}, fail)
  IN  [kc |-> d.kc,
       ok |-> d.status = "errSecSuccess" \/ d.status = "errSecItemNotFound"]

\* SecureStorage.keys
Ios_keys(kc, fail) ==
  IF fail THEN {}
  ELSE {k \in Keys : kc[Item(k)] # NoData}

\* --------------------------------------------------- web SecureStorageWeb
\* String(x) as setItem and the template literal apply it.
JsToString(x) == IF x = Null THEN <<"n", "u", "l", "l">> ELSE x
getKeyName(key) == storagePrefix \o JsToString(key)
startsWith(s, pre) ==
  Len(s) >= Len(pre) /\ SubSeq(s, 1, Len(pre)) = pre
substring(s, from) == SubSeq(s, from + 1, Len(s))
ItemNames == {getKeyName(k) : k \in Keys \cup {Null}} \cup {<<"x">>}

\* localStorage.setItem / getItem / removeItem; Null marks a missing item.
Web_set(ls, key, value) == [ls EXCEPT ![getKeyName(key)] = JsToString(value)]
Web_get(ls, key) == ls[getKeyName(key)]
Web_remove(ls, key) == [ls EXCEPT ![getKeyName(key)] = Null]
ObjectKeys(ls) == {n \in ItemNames : ls[n] # Null}
\* Web_clear as localStorage.clear(), without the prefix filter.
Web_clear_All(ls) == [n \in ItemNames |-> Null]

Web_clear(ls) ==
  [n \in ItemNames |->
     IF n \in {m \in ObjectKeys(ls) : startsWith(m, storagePrefix)}
     THEN Null ELSE ls[n]]
Web_keys(ls) ==
  {substring(n, Len(storagePrefix)) :
     n \in {m \in ObjectKeys(ls) : startsWith(m, storagePrefix)}}

\* ----------------------------------------------------------------- state
\* Callers that may each have one set call in progress, and the values they
\* write.
Callers == {1, 2}
ConcValues == {<<>>, <<"a">>}
\* pc: "idle", "begun" (arguments validated, value encoded or encrypted),
\* "deleted" (iOS: SecItemDelete returned), "done" (answered).  blob is the
\* encrypted text held by the call, w the position of its store write among
\* all store writes (0: none yet).
Idle == [pc |-> "idle", key |-> Null, val |-> Null, blob |-> NoBlob,
         status |-> "none", w |-> 0]

\* The value of disk while the file and the in-memory map agree.
NoFile == [k \in Keys |-> NoBlob]

VARIABLES
  platform,     \* "android", "ios" or "web": the implementation running
  loaded,       \* the plugin's load() has run in the current process
  ctorOk,       \* the SecureStorage constructor's try block completed
  aks,          \* Android KeyStore: key id under MASTER_KEY_ALIAS, 0 if none
  gen,          \* number of master keys generated so far
  prefs,        \* SharedPreferences SECURE_STORAGE_PREFS: key -> stored text
  damage,       \* number of stored texts altered from outside so far
  behind,       \* edits passed to apply() are queued, not yet in the file
  disk,         \* the preferences file while behind (unused otherwise)
  keychain,     \* iOS Keychain generic passwords: (service, account) -> data
  localStorage, \* the browser's localStorage: item name -> string
  live,         \* history: keys whose set was answered with success and
                \* that no successful remove or clear followed
  last,         \* the call answered last, as its caller saw it
  calls         \* set calls running concurrently: caller -> progress

androidVars == <<loaded, ctorOk, aks, gen, prefs, damage, behind, disk>>
iosVars == <<keychain>>
webVars == <<localStorage>>
vars == <<platform, androidVars, iosVars, webVars, live, last, calls>>

FaultOf(fail, step) == IF fail THEN step ELSE "none"

\* The entry the store holds for a key, and whether there is one.
Entry(key) ==
  CASE platform = "android" -> prefs[key]
    [] platform = "ios" -> keychain[Item(key)]
    [] OTHER -> localStorage[getKeyName(key)]
Has(key) ==
  CASE platform = "android" -> key \in Keys /\ prefs[key].present
    [] platform = "ios" -> key \in Keys /\ keychain[Item(key)] # NoData
    [] OTHER -> localStorage[getKeyName(key)] # Null

\* What the caller of the bridge observes of one call: the operation and
\* its arguments, resolved or rejected, the rejection message, the value or
\* key list returned.  log is the failure met inside the call ("none" if no
\* step failed) and had tells whether the key (for clear: any key) had an
\* entry when the call began; n counts the call.resolve and call.reject
\* made on the path the handler took.  These three are history, not
\* visible to the caller.
Call(op, key, val, status, msg, ret, ks, log) ==
  [op |-> op, key |-> key, val |-> val, status |-> status, msg |-> msg,
   ret |-> ret, keys |-> ks, log |-> log,
   n |-> IF status = "none" THEN 0 ELSE 1,
   had |-> IF op = "clear" THEN \E k \in Keys : Has(k)
           ELSE op \in {"set", "get", "remove"} /\ Has(key)]
NoCall == Call("none", Null, Null, "none", "", Null, {}, "none")
\* A rejection whose branch lacks the return: the handler goes on and
\* answers the call a second time.
Rejected_NoReturn(op, key, val, msg, log) ==
  [Call(op, key, val, "rejected", msg, Null, {}, log) EXCEPT !.n = 2]

Rejected(op, key, val, msg, log) ==
  Call(op, key, val, "rejected", msg, Null, {}, log)
Resolved(op, key, val, ret, ks, log) ==
  Call(op, key, val, "resolved", "", ret, ks, log)
Thrown(r) == IF r.exc # "none" THEN r.exc ELSE r.log

\* SecureStoragePlugin.get (Android)
AndroidGetCall(key) ==
  IF key = Null
  THEN Rejected("get", key, Null, "Key string must be provided", "none")
  ELSE LET r == Android_get(prefs, ctorOk, aks, key)
       IN  IF r.exc # "none"
           THEN Rejected("get", key, Null, "Error retrieving value", Thrown(r))
           ELSE Resolved("get", key, Null, r.ret, {}, Thrown(r))

\* SecureStoragePlugin.get (iOS)
IosGetCall(key, fail) ==
  IF key = Null
  THEN Rejected("get", key, Null, "Key string must be provided", "none")
  ELSE Resolved("get", key, Null, Ios_get(keychain, key, fail), {},
                FaultOf(fail, "SecItemCopyMatching"))

\* SecureStorageWeb.get
WebGetCall(key) ==
  Resolved("get", key, Null, Web_get(localStorage, key), {}, "none")

Init ==
  /\ platform \in {"android", "ios", "web"}
  /\ loaded = (platform # "android")
  /\ ctorOk = TRUE
  /\ aks = 0
  /\ gen = 0
  /\ prefs = [k \in Keys |-> NoBlob]
  /\ damage = 0
  /\ behind = FALSE
  /\ disk = NoFile
  /\ keychain = [i \in Items |->
                   IF i.svc = serviceIdentifier THEN NoData ELSE <<97>>]
  /\ localStorage = [n \in ItemNames |-> IF n = <<"x">> THEN <<"a">> ELSE Null]
  /\ live = {}
  /\ last = NoCall
  /\ calls = [c \in Callers |-> Idle]

\* -------------------------------------------- Android: process lifecycle
Event(name, key, how) == Call(name, key, Null, "none", how, Null, {}, "none")

\* containsAlias answering false whatever the KeyStore holds.
containsAlias_Never(ks) == FALSE

\* keyStore.containsAlias(MASTER_KEY_ALIAS)
containsAlias(ks) == ks # 0

\* SecureStoragePlugin.load -> new SecureStorage(context).  KeyStore
\* access may throw (caught, fields stay null); generateMasterKey may throw
\* (caught, no key is stored).
AndroidLoad ==
  /\ platform = "android" /\ ~loaded
  /\ loaded' = TRUE
  /\ \/ /\ ctorOk' = FALSE
        /\ UNCHANGED <<aks, gen>>
     \/ /\ ctorOk' = TRUE
        /\ IF containsAlias(aks) THEN UNCHANGED <<aks, gen>>
           ELSE \/ /\ gen < MaxKeyGen
                   /\ gen' = gen + 1
                   /\ aks' = gen + 1
                \/ UNCHANGED <<aks, gen>>
  /\ last' = Event("load", Null, "")
  /\ UNCHANGED <<calls, platform, prefs, damage, behind, disk, iosVars, webVars, live>>

\* The process ends with every edit written; the KeyStore and the
\* preferences persist.
AndroidRestart ==
  /\ platform = "android" /\ loaded /\ ~behind
  /\ loaded' = FALSE
  /\ ctorOk' = TRUE
  /\ last' = Event("restart", Null, "")
  /\ UNCHANGED <<calls, platform, aks, gen, prefs, damage, behind, disk, iosVars, webVars, live>>

\* Editor.apply() changes the in-memory map at once and writes the file on
\* another thread.  From ApplyPending on the edits are queued and the file
\* keeps its contents, until ApplyWritten.
ApplyPending ==
  /\ platform = "android" /\ loaded /\ ~behind
  /\ behind' = TRUE
  /\ disk' = prefs
  /\ last' = Event("applyPending", Null, "")
  /\ UNCHANGED <<calls, platform, loaded, ctorOk, aks, gen, prefs, damage,
                 iosVars, webVars, live>>

ApplyWritten ==
  /\ platform = "android" /\ behind
  /\ behind' = FALSE
  /\ disk' = NoFile
  /\ last' = Event("applyWritten", Null, "")
  /\ UNCHANGED <<calls, platform, loaded, ctorOk, aks, gen, prefs, damage,
                 iosVars, webVars, live>>

\* The process is killed: the next process reads the file.
AndroidCrash ==
  /\ platform = "android" /\ loaded
  /\ loaded' = FALSE
  /\ ctorOk' = TRUE
  /\ prefs' = IF behind THEN disk ELSE prefs
  /\ behind' = FALSE
  /\ disk' = NoFile
  /\ last' = Event("crash", Null, "")
  /\ UNCHANGED <<calls, platform, aks, gen, damage, iosVars, webVars, live>>

\* ------------------------------------------------- Android: plugin bridge
AndroidPlugin_set ==
  /\ platform = "android" /\ loaded
  /\ \E key \in Keys \cup {Null}, value \in Values \cup {Null}, n \in Nonces :
       IF key = Null
       THEN /\ last' = Rejected("set", key, value,
                                "Key string must be provided", "none")
            /\ UNCHANGED <<prefs, live>>
       ELSE IF value = Null
       THEN /\ last' = Rejected("set", key, value,
                                "Value string must be provided", "none")
            /\ UNCHANGED <<prefs, live>>
       ELSE LET r == Android_set(prefs, ctorOk, aks, key, value, n)
            IN  /\ prefs' = r.prefs
                /\ live' = IF r.exc = "none" THEN live \cup {key} ELSE live
                /\ last' = IF r.exc # "none"
                           THEN Rejected("set", key, value,
                                         "Error storing value", Thrown(r))
                           ELSE Resolved("set", key, value, Null, {},
                                         Thrown(r))
  /\ UNCHANGED <<calls, platform, loaded, ctorOk, aks, gen, damage, behind, disk, iosVars, webVars>>

\* A get that generates the master key when the KeyStore holds none.
AndroidPlugin_get_EnsuresKey ==
  /\ platform = "android" /\ loaded
  /\ \E key \in Keys \cup {Null} : last' = AndroidGetCall(key)
  /\ IF ctorOk /\ ~containsAlias(aks) /\ gen < MaxKeyGen
     THEN gen' = gen + 1 /\ aks' = gen + 1
     ELSE UNCHANGED <<aks, gen>>
  /\ UNCHANGED <<calls, platform, loaded, ctorOk, prefs, damage, behind,
                 disk, iosVars, webVars, live>>

AndroidPlugin_get ==
  /\ platform = "android" /\ loaded
  /\ \E key \in Keys \cup {Null} : last' = AndroidGetCall(key)
  /\ UNCHANGED <<calls, platform, androidVars, iosVars, webVars, live>>

AndroidPlugin_remove ==
  /\ platform = "android" /\ loaded
  /\ \E key \in Keys \cup {Null} :
       IF key = Null
       THEN /\ last' = Rejected("remove", key, Null,
                                "Key string must be provided", "none")
            /\ UNCHANGED <<prefs, live>>
       ELSE LET r == Android_remove(prefs, ctorOk, key)
            IN  /\ prefs' = r.prefs
                /\ live' = IF r.exc = "none" THEN live \ {key} ELSE live
                /\ last' = IF r.exc # "none"
                           THEN Rejected("remove", key, Null,
                                         "Error removing value", Thrown(r))
                           ELSE Resolved("remove", key, Null, Null, {},
                                         Thrown(r))
  /\ UNCHANGED <<calls, platform, loaded, ctorOk, aks, gen, damage, behind, disk, iosVars, webVars>>

AndroidPlugin_clear ==
  /\ platform = "android" /\ loaded
  /\ LET r == Android_clear(prefs, ctorOk)
     IN  /\ prefs' = r.prefs
         /\ live' = IF r.exc = "none" THEN {} ELSE live
         /\ last' = IF r.exc # "none"
                    THEN Rejected("clear", Null, Null,
                                  "Error clearing storage", Thrown(r))
                    ELSE Resolved("clear", Null, Null, Null, {}, Thrown(r))
  /\ UNCHANGED <<calls, platform, loaded, ctorOk, aks, gen, damage, behind, disk, iosVars, webVars>>

AndroidPlugin_keys ==
  /\ platform = "android" /\ loaded
  /\ LET r == Android_keys(prefs, ctorOk)
     IN  last' = IF r.exc # "none"
                 THEN Rejected("keys", Null, Null,
                               "Error retrieving keys", Thrown(r))
                 ELSE Resolved("keys", Null, Null, Null, r.keys, Thrown(r))
  /\ UNCHANGED <<calls, platform, androidVars, iosVars, webVars, live>>

\* ------------------------------------------- Android: the world outside
\* The key-custody service loses the master key (deleted, invalidated).
KeyStoreKeyDeleted ==
  /\ platform = "android" /\ aks # 0
  /\ aks' = 0
  /\ last' = Event("keyDeleted", Null, "")
  /\ UNCHANGED <<calls, platform, loaded, ctorOk, gen, prefs, damage, behind, disk, iosVars,
                 webVars, live>>

Pristine(blob) ==
  /\ blob.present /\ blob.b64 /\ blob.trunc = "none"
  /\ blob.ct.x = 0 /\ blob.tag.x = 0 /\ blob.iv = blob.ct.n

\* One bit of a stored record is flipped: in the ciphertext, the tag or
\* the IV (which becomes 0, an IV the cipher never drew).
Flip(blob, part) ==
  CASE part = "ct" -> [blob EXCEPT !.ct.x = 1]
    [] part = "tag" -> [blob EXCEPT !.tag.x = 1]
    [] OTHER -> [blob EXCEPT !.iv = 0]

Tamper ==
  /\ platform = "android" /\ damage < MaxDamage
  /\ \E key \in Keys, part \in {"ct", "tag", "iv"} :
       /\ Pristine(prefs[key])
       /\ part = "ct" => Len(prefs[key].ct.pt) > 0
       /\ prefs' = [prefs EXCEPT ![key] = Flip(prefs[key], part)]
       /\ last' = Event("tamper", key, part)
  /\ damage' = damage + 1
  /\ UNCHANGED <<calls, platform, loaded, ctorOk, aks, gen, behind, disk, iosVars,
                 webVars, live>>

\* A stored text is replaced by one that is not Base64, or cut short.
Corrupt ==
  /\ platform = "android" /\ damage < MaxDamage
  /\ \E key \in Keys, how \in {"notB64", "tag", "iv"} :
       /\ Pristine(prefs[key])
       /\ prefs' = [prefs EXCEPT ![key] =
                      IF how = "notB64" THEN [@ EXCEPT !.b64 = FALSE]
                      ELSE [@ EXCEPT !.trunc = how]]
       /\ last' = Event("corrupt", key, how)
  /\ damage' = damage + 1
  /\ UNCHANGED <<calls, platform, loaded, ctorOk, aks, gen, behind, disk, iosVars,
                 webVars, live>>

\* ----------------------------------------------------- iOS: plugin bridge
\* failDel, failAdd, fail: the Keychain call returns an error status.
IosPlugin_set ==
  /\ platform = "ios"
  /\ \E key \in Keys \cup {Null}, value \in SwiftValues \cup {Null},
        failDel \in BOOLEAN, failAdd \in BOOLEAN :
       IF key = Null
       THEN /\ last' = Rejected("set", key, value,
                                "Key string must be provided", "none")
            /\ UNCHANGED <<keychain, live>>
       ELSE IF value = Null
       THEN /\ last' = Rejected("set", key, value,
                                "Value string must be provided", "none")
            /\ UNCHANGED <<keychain, live>>
       ELSE LET r == Ios_set(keychain, key, value, failDel, failAdd)
                log == IF failAdd THEN "SecItemAdd"
                       ELSE FaultOf(failDel /\ Has(key), "SecItemDelete")
            IN  /\ keychain' = r.kc
                /\ live' = IF r.ok THEN live \cup {key} ELSE live
                /\ last' = IF r.ok
                           THEN Resolved("set", key, value, Null, {}, log)
                           ELSE Rejected("set", key, value,
                                         "Failed to store value", log)
  /\ UNCHANGED <<calls, platform, androidVars, webVars>>

IosPlugin_get ==
  /\ platform = "ios"
  /\ \E key \in Keys \cup {Null}, fail \in BOOLEAN :
       last' = IosGetCall(key, fail)
  /\ UNCHANGED <<calls, platform, androidVars, iosVars, webVars, live>>

IosPlugin_remove ==
  /\ platform = "ios"
  /\ \E key \in Keys \cup {Null}, fail \in BOOLEAN :
       IF key = Null
       THEN /\ last' = Rejected("remove", key, Null,
                                "Key string must be provided", "none")
            /\ UNCHANGED <<keychain, live>>
       ELSE LET r == Ios_remove(keychain, key, fail)
            IN  /\ keychain' = r.kc
                /\ live' = IF r.ok THEN live \ {key} ELSE live
                /\ last' = IF r.ok
                           THEN Resolved("remove", key, Null, Null, {},
                                         FaultOf(fail, "SecItemDelete"))
                           ELSE Rejected("remove", key, Null,
                                         "Failed to remove value",
                                         FaultOf(fail, "SecItemDelete"))
  /\ UNCHANGED <<calls, platform, androidVars, webVars>>

IosPlugin_clear ==
  /\ platform = "ios"
  /\ \E fail \in BOOLEAN :
       LET r == Ios_clear(keychain, fail)
       IN  /\ keychain' = r.kc
           /\ live' = IF r.ok THEN {} ELSE live
           /\ last' = IF r.ok
                      THEN Resolved("clear", Null, Null, Null, {},
                                    FaultOf(fail, "SecItemDelete"))
                      ELSE Rejected("clear", Null, Null,
                                    "Failed to clear storage",
                                    FaultOf(fail, "SecItemDelete"))
  /\ UNCHANGED <<calls, platform, androidVars, webVars>>

IosPlugin_keys ==
  /\ platform = "ios"
  /\ \E fail \in BOOLEAN :
       last' = Resolved("keys", Null, Null, Null, Ios_keys(keychain, fail),
                        FaultOf(fail, "SecItemCopyMatching"))
  /\ UNCHANGED <<calls, platform, androidVars, iosVars, webVars, live>>

\* ------------------------------------------------------------------- web
\* quota: setItem throws QuotaExceededError (the storage is full) and the
\* async method's promise is rejected.
WebPlugin_set ==
  /\ platform = "web"
  /\ \E key \in Keys \cup {Null}, value \in Values \cup {Null},
        quota \in BOOLEAN :
       IF quota
       THEN /\ last' = Rejected("set", key, value, "QuotaExceededError",
                                "setItem")
            /\ UNCHANGED <<localStorage, live>>
       ELSE /\ localStorage' = Web_set(localStorage, key, value)
            /\ live' = live \cup {JsToString(key)}
            /\ last' = Resolved("set", key, value, Null, {}, "none")
  /\ UNCHANGED <<calls, platform, androidVars, iosVars>>

WebPlugin_get ==
  /\ platform = "web"
  /\ \E key \in Keys \cup {Null} : last' = WebGetCall(key)
  /\ UNCHANGED <<calls, platform, androidVars, iosVars, webVars, live>>

WebPlugin_remove ==
  /\ platform = "web"
  /\ \E key \in Keys \cup {Null} :
       /\ localStorage' = Web_remove(localStorage, key)
       /\ live' = live \ {JsToString(key)}
       /\ last' = Resolved("remove", key, Null, Null, {}, "none")
  /\ UNCHANGED <<calls, platform, androidVars, iosVars>>

WebPlugin_clear ==
  /\ platform = "web"
  /\ localStorage' = Web_clear(localStorage)
  /\ live' = {}
  /\ last' = Resolved("clear", Null, Null, Null, {}, "none")
  /\ UNCHANGED <<calls, platform, androidVars, iosVars>>

WebPlugin_keys ==
  /\ platform = "web"
  /\ last' = Resolved("keys", Null, Null, Null, Web_keys(localStorage),
                      "none")
  /\ UNCHANGED <<calls, platform, androidVars, iosVars, webVars, live>>

Next ==
  \/ AndroidLoad \/ AndroidRestart
  \/ AndroidPlugin_set \/ AndroidPlugin_get \/ AndroidPlugin_remove
  \/ AndroidPlugin_clear \/ AndroidPlugin_keys
  \/ KeyStoreKeyDeleted \/ Tamper \/ Corrupt
  \/ IosPlugin_set \/ IosPlugin_get \/ IosPlugin_remove
  \/ IosPlugin_clear \/ IosPlugin_keys
  \/ WebPlugin_set \/ WebPlugin_get \/ WebPlugin_remove
  \/ WebPlugin_clear \/ WebPlugin_keys

\* The plugin's calls and the application's life cycle, the key store and
\* the stored records being touched by the plugin alone.
NextPlugin ==
  \/ AndroidLoad \/ AndroidRestart
  \/ AndroidPlugin_set \/ AndroidPlugin_get \/ AndroidPlugin_remove
  \/ AndroidPlugin_clear \/ AndroidPlugin_keys
  \/ IosPlugin_set \/ IosPlugin_get \/ IosPlugin_remove
  \/ IosPlugin_clear \/ IosPlugin_keys
  \/ WebPlugin_set \/ WebPlugin_get \/ WebPlugin_remove
  \/ WebPlugin_clear \/ WebPlugin_keys

PluginSpec == Init /\ [][NextPlugin]_vars

\* The same with the file written behind the calls and the process killed
\* at any point.
NextCrash ==
  \/ NextPlugin
  \/ ApplyPending \/ ApplyWritten \/ AndroidCrash

CrashSpec == Init /\ [][NextCrash]_vars

\* ------------------------------------------------- concurrent set calls
\* The steps of SecureStorage.set as other calls may interleave with them.
Writes == Cardinality({c \in Callers : calls[c].w > 0})

\* Android: up to the encryption; a failure ends the call at once.
AndroidSetBegin ==
  /\ platform = "android" /\ loaded
  /\ \E c \in Callers, key \in Keys, value \in ConcValues, n \in Nonces :
       /\ calls[c].pc = "idle"
       /\ LET r == Android_set(prefs, ctorOk, aks, key, value, n)
          IN  calls' = [calls EXCEPT ![c] =
                IF r.exc # "none"
                THEN [@ EXCEPT !.pc = "done", !.key = key, !.val = value,
                               !.status = "rejected"]
                ELSE IF r.log # "none"
                THEN [@ EXCEPT !.pc = "done", !.key = key, !.val = value,
                               !.status = "resolved"]
                ELSE [@ EXCEPT !.pc = "begun", !.key = key, !.val = value,
                               !.blob = r.prefs[key]]]
  /\ UNCHANGED <<platform, androidVars, iosVars, webVars, live, last>>

\* Android: sharedPreferences.edit().putString(key, encryptedValue).apply()
AndroidSetWrite ==
  /\ platform = "android"
  /\ \E c \in Callers :
       /\ calls[c].pc = "begun"
       /\ prefs' = [prefs EXCEPT ![calls[c].key] = calls[c].blob]
       /\ calls' = [calls EXCEPT ![c] =
            [@ EXCEPT !.pc = "done", !.status = "resolved",
                      !.w = Writes + 1]]
  /\ UNCHANGED <<platform, loaded, ctorOk, aks, gen, damage, behind, disk, iosVars,
                 webVars, live, last>>

\* iOS: value.data(using: .utf8) and the query dictionary
IosSetBegin ==
  /\ platform = "ios"
  /\ \E c \in Callers, key \in Keys, value \in ConcValues :
       /\ calls[c].pc = "idle"
       /\ calls' = [calls EXCEPT ![c] =
            [@ EXCEPT !.pc = "begun", !.key = key, !.val = value]]
  /\ UNCHANGED <<platform, androidVars, iosVars, webVars, live, last>>

\* iOS: SecItemDelete(query)
IosSetDelete ==
  /\ platform = "ios"
  /\ \E c \in Callers :
       /\ calls[c].pc = "begun"
       /\ keychain' = SecItemDelete(keychain, {Item(calls[c].key)}, FALSE).kc
       /\ calls' = [calls EXCEPT ![c] = [@ EXCEPT !.pc = "deleted"]]
  /\ UNCHANGED <<platform, androidVars, webVars, live, last>>

\* iOS: SecItemAdd(query) and the answer of the bridge
IosSetAdd ==
  /\ platform = "ios"
  /\ \E c \in Callers :
       /\ calls[c].pc = "deleted"
       /\ LET a == SecItemAdd(keychain, Item(calls[c].key),
                              dataUtf8(calls[c].val), FALSE)
          IN  /\ keychain' = a.kc
              /\ calls' = [calls EXCEPT ![c] =
                   [@ EXCEPT !.pc = "done", !.w = Writes + 1,
                             !.status = IF a.status = "errSecSuccess"
                                        THEN "resolved" ELSE "rejected"]]
  /\ UNCHANGED <<platform, androidVars, webVars, live, last>>

\* Web: the method has no await, so it runs as one step of the event loop.
WebSetRun ==
  /\ platform = "web"
  /\ \E c \in Callers, key \in Keys, value \in ConcValues :
       /\ calls[c].pc = "idle"
       /\ localStorage' = Web_set(localStorage, key, value)
       /\ calls' = [calls EXCEPT ![c] =
            [@ EXCEPT !.pc = "done", !.key = key, !.val = value,
                      !.status = "resolved", !.w = Writes + 1]]
  /\ UNCHANGED <<platform, androidVars, iosVars, live, last>>

\* The answer get(key) gives in the current state when the read itself
\* meets no fault.
GetNow(key) ==
  CASE platform = "android" -> AndroidGetCall(key)
    [] platform = "ios" -> IosGetCall(key, FALSE)
    [] OTHER -> WebGetCall(key)

\* A get call made while set calls are in progress: the store is read in
\* one step (getString, SecItemCopyMatching, getItem).
ConcGet ==
  /\ loaded
  /\ \E key \in Keys : last' = GetNow(key)
  /\ UNCHANGED <<platform, androidVars, iosVars, webVars, live, calls>>

NextConc ==
  \/ AndroidLoad
  \/ ConcGet
  \/ AndroidSetBegin \/ AndroidSetWrite
  \/ IosSetBegin \/ IosSetDelete \/ IosSetAdd
  \/ WebSetRun

ConcSpec == Init /\ [][NextConc]_vars

\* ------------------------------------------------------------ views
\* The three stores together.
Stores == <<prefs, keychain, localStorage>>

\* A set call with a key and a string value.
IsSet(c) == c.op = "set" /\ c.key \in Keys /\ c.val # Null

\* ------------------------------------------------------------ properties
\* C1: set(k, v) that reports success, immediately followed by get(k),
\* returns exactly v, on each of the three implementations.
RoundTrip ==
  (IsSet(last) /\ last.status = "resolved")
    => (GetNow(last.key).status = "resolved"
        /\ GetNow(last.key).ret = last.val)

\* C2: after a bit of a stored record's ciphertext or tag was flipped, get
\* on that key is rejected (the master key being available); it does not
\* answer with a value or null.
BitFlipped(blob) ==
  /\ blob.present /\ blob.b64 /\ blob.trunc = "none"
  /\ (blob.ct.x = 1 \/ blob.tag.x = 1)
TamperDetected ==
  (/\ platform = "android" /\ ctorOk /\ aks # 0
   /\ last.op = "get" /\ last.key \in Keys
   /\ BitFlipped(prefs[last.key]))
    => last.status = "rejected"

\* C3: get on a key without an entry resolves with null, get on a key whose
\* stored text was damaged is rejected, so the two answers differ.
Damaged(blob) == blob.present /\ ~Pristine(blob)
AbsentVsCorrupt ==
  (/\ platform = "android" /\ ctorOk /\ aks # 0
   /\ last.op = "get" /\ last.key \in Keys)
    => /\ ~last.had => (last.status = "resolved" /\ last.ret = Null)
       /\ Damaged(prefs[last.key]) => last.status = "rejected"

\* C4: keys() answers with exactly the keys that were set with success and
\* not removed or cleared since.
KeysExact ==
  (last.op = "keys" /\ last.status = "resolved") => last.keys = live

\* C5: remove(k) on a key without an entry leaves every store as it was and
\* is rejected only when the storage call itself failed; a remove that
\* succeeded leaves k without an entry, so a second remove(k) is that case.
RemoveAbsentNoop ==
  [][\A k \in Keys :
       (last'.op = "remove" /\ last'.key = k)
         => /\ ~Has(k) => /\ Stores' = Stores
                          /\ last'.log = "none" => last'.status = "resolved"
            /\ last'.status = "resolved" => ~Has(k)']_vars

\* A remove of a key that had no entry, answered with success, another key
\* being stored.
RemovedAbsent ==
  /\ last.op = "remove" /\ last.key \in Keys /\ ~last.had
  /\ last.status = "resolved" /\ live # {}

\* C6: set(k, null) gives its caller the answer remove(k) would give and
\* leaves the stores as remove(k) would leave them.
RemoveNow(key) ==
  CASE platform = "android" ->
         LET r == Android_remove(prefs, ctorOk, key)
         IN  [status |-> IF r.exc # "none" THEN "rejected" ELSE "resolved",
              stores |-> <<r.prefs, keychain, localStorage>>]
    [] platform = "ios" ->
         LET r == Ios_remove(keychain, key, FALSE)
         IN  [status |-> IF r.ok THEN "resolved" ELSE "rejected",
              stores |-> <<prefs, r.kc, localStorage>>]
    [] OTHER ->
         [status |-> "resolved",
          stores |-> <<prefs, keychain, Web_remove(localStorage, key)>>]
NullSetIsRemove ==
  [][\A k \in Keys :
       (last'.op = "set" /\ last'.key = k /\ last'.val = Null)
         => /\ last'.status = RemoveNow(k).status
            /\ Stores' = RemoveNow(k).stores]_vars

\* C7: after set(k, v), failed or not, the entry of k is the one it was
\* before or the complete record of v.
NewRecordFor(key, v) ==
  CASE platform = "android" ->
         /\ Pristine(prefs[key]) /\ prefs[key].ct.k = aks
         /\ prefs[key].ct.pt = getBytes(v)
    [] platform = "ios" -> keychain[Item(key)] = dataUtf8(v)
    [] OTHER -> localStorage[getKeyName(key)] = v
SetAtomic ==
  [][\A k \in Keys, v \in Values \cup SwiftValues :
       (last'.op = "set" /\ last'.key = k /\ last'.val = v)
         => (Entry(k)' = Entry(k) \/ NewRecordFor(k, v)')]_vars

\* C8: when two set calls for one key, run concurrently, have both made
\* their store write and been answered, both were answered with success and
\* get(k) returns the value of the call that wrote last.
BothWrote(k) ==
  \A c \in Callers :
    calls[c].pc = "done" /\ calls[c].key = k /\ calls[c].w > 0
LastWriteWins ==
  \A k \in Keys :
    BothWrote(k)
      => /\ \A c \in Callers : calls[c].status = "resolved"
         /\ \A c \in Callers :
              calls[c].w = Cardinality(Callers)
                => (GetNow(k).status = "resolved"
                    /\ GetNow(k).ret = calls[c].val)

\* C9: a call in which a storage or cipher step failed is rejected.
FailuresReported == last.log # "none" => last.status = "rejected"

\* C10: while the KeyStore holds no master key, set and get of a stored
\* record are rejected.
KeyUnavailableReported ==
  (/\ platform = "android" /\ ctorOk /\ aks = 0
   /\ \/ IsSet(last)
      \/ /\ last.op = "get" /\ last.key \in Keys
         /\ Pristine(prefs[last.key]))
    => last.status = "rejected"

\* C11: get on a key whose stored text does not decode from Base64, or
\* decodes to fewer bytes than IV and tag take, is rejected; it resolves
\* with neither a value nor null.
Malformed(blob) ==
  /\ blob.present
  /\ \/ ~blob.b64
     \/ CombinedLength(blob) < GCM_IV_LENGTH + TagBytes
MalformedReported ==
  (/\ platform = "android" /\ last.op = "get" /\ last.key \in Keys
   /\ Malformed(prefs[last.key]))
    => last.status = "rejected"

\* C12: a set, get or remove without a key, and a set without a value, is
\* rejected with one of the caller-input messages, which no storage failure
\* uses, and leaves every store as it was.
InputMessages ==
  {"Key string must be provided", "Value string must be provided"}
InputsValidated ==
  [][/\ (/\ last'.op \in {"set", "get", "remove"}
         /\ \/ last'.key = Null
            \/ last'.op = "set" /\ last'.val = Null)
          => /\ last'.status = "rejected"
             /\ last'.msg \in InputMessages
             /\ Stores' = Stores
     /\ (last'.status = "rejected" /\ last'.log # "none")
          => last'.msg \notin InputMessages]_vars

\* C13: the entries of the same physical store outside the plugin's
\* namespace (Keychain items of another service, localStorage items without
\* the prefix) are left as they are by clear and by every other operation.
ForeignItems ==
  [i \in {j \in Items : j.svc # serviceIdentifier} |-> keychain[i]]
ForeignNames ==
  [n \in {m \in ItemNames : ~startsWith(m, storagePrefix)} |-> localStorage[n]]
ClearKeepsForeign ==
  [][<<ForeignItems, ForeignNames>>' = <<ForeignItems, ForeignNames>>]_vars

\* A clear that removed entries of the namespace and was answered with
\* success, the foreign entries being there.
ClearedOwn ==
  /\ last.op = "clear" /\ last.status = "resolved" /\ last.had
  /\ platform \in {"ios", "web"}
  /\ \A k \in Keys : ~Has(k)
  /\ localStorage[<<"x">>] # Null
  /\ \A i \in Items : i.svc # serviceIdentifier => keychain[i] # NoData

\* A set call with a string value that was answered with success and met
\* no failure has just been made for key k.
SetDone(k, v) ==
  /\ last'.op = "set" /\ last'.key = k /\ last'.val = v
  /\ last'.status = "resolved" /\ last'.log = "none"

\* The entry of key is the Base64 text of IV, ciphertext and tag of v under
\* the master key the KeyStore holds.
CiphertextOf(key, v) ==
  /\ aks # 0 /\ Pristine(prefs[key])
  /\ prefs[key].ct.k = aks /\ prefs[key].tag.k = aks
  /\ prefs[key].ct.pt = getBytes(v)

\* C14: what a set writes to the backing store is the encryption of the
\* value under the master key, never the value itself, on each of the three
\* implementations.
StoredEncrypted ==
  [][\A k \in Keys, v \in Values \cup SwiftValues :
       SetDone(k, v)
         => CASE platform = "android" -> CiphertextOf(k, v)'
              [] platform = "ios" -> keychain'[Item(k)] # dataUtf8(v)
              [] OTHER -> localStorage'[getKeyName(k)] # v]_vars

\* C14 as amended: Android stores the encryption of the value under the
\* KeyStore master key; iOS stores the value's UTF-8 bytes as a Keychain
\* item and the web stores the value itself in localStorage.
StoredAsBuilt ==
  [][\A k \in Keys, v \in Values \cup SwiftValues :
       SetDone(k, v)
         => CASE platform = "android" -> CiphertextOf(k, v)'
              [] platform = "ios" -> keychain'[Item(k)] = dataUtf8(v)
              [] OTHER -> localStorage'[getKeyName(k)] = v]_vars

\* An Android set that stored a record of a non-empty value.
StoredCiphertext ==
  /\ platform = "android" /\ IsSet(last) /\ last.status = "resolved"
  /\ last.val # <<>> /\ CiphertextOf(last.key, last.val)

OneMasterKey ==
  [][/\ aks # 0 => aks' = aks
     /\ aks' # aks => (last'.op = "load" /\ aks = 0 /\ gen = 0)
     /\ gen' <= 1]_vars

\* An initialization that found the master key of an earlier process, a
\* record encrypted under it being stored.
SecondInit ==
  /\ platform = "android" /\ last.op = "load" /\ ctorOk /\ aks # 0
  /\ \E k \in Keys : Pristine(prefs[k]) /\ prefs[k].ct.k = aks

\* C17: a crash of the process loses no change that a set, remove or clear
\* answered with success has made: the next process finds every entry as
\* the crashed one left it.
DurableOnCrash ==
  [][last'.op = "crash" => prefs' = prefs]_vars

\* C18: every call is answered exactly once, resolved or rejected, on each
\* path; a call in which a storage or cipher step failed does not make the
\* step again: it returns no value and no keys, and a set leaves the entry
\* as it was or without the new record.
Ops == {"set", "get", "remove", "clear", "keys"}
RecordLayout ==
  (/\ platform = "android" /\ IsSet(last) /\ last.status = "resolved"
   /\ CiphertextOf(last.key, last.val))
    => LET pt == getBytes(last.val)
           c == combinedBytes(getIV, doFinalBytes(pt))
       IN  /\ Len(c) = 12 + Len(pt) + 16
           /\ Len(c) = CombinedLength(prefs[last.key])
           /\ Len(getIV) = 12
           /\ Len(doFinalBytes(pt)) = Len(pt) + 16
           /\ ivOf(c) = getIV
           /\ encOf(c) = doFinalBytes(pt)
           /\ \A i \in 1..Len(c) : c[i][1] # "zero"

\* An Android set that stored the record of the empty value, and one that
\* stored the record of a value of one byte.
StoredRecord ==
  /\ platform = "android" /\ last.op = "set" /\ last.status = "resolved"
  /\ last.key = <<"a">> /\ last.val = <<"a">>
  /\ CiphertextOf(<<"a">>, <<"a">>) /\ CiphertextOf(<<"b">>, <<>>)

\* C20: a get(k) made after a set of k was answered with success, while
\* other set calls of k may be in progress, resolves with the value of one
\* of the set calls of k; it does not find k absent.
SetAnswered(k) ==
  \E c \in Callers :
    /\ calls[c].pc = "done" /\ calls[c].status = "resolved"
    /\ calls[c].key = k /\ calls[c].w > 0
GetSeesValue ==
  [][\A k \in Keys :
       (last' # last /\ last'.op = "get" /\ last'.key = k /\ SetAnswered(k))
         => /\ last'.status = "resolved"
            /\ last'.ret \in {calls[c].val :
                               c \in {d \in Callers : /\ calls[d].key = k
                                                      /\ calls[d].pc # "idle"}}
    ]_vars

\* The answer keys() gives in the current state when the read itself
\* meets no fault.
KeysNow ==
  CASE platform = "android" ->
         LET r == Android_keys(prefs, ctorOk)
         IN  IF r.exc # "none"
             THEN Rejected("keys", Null, Null, "Error retrieving keys",
                           Thrown(r))
             ELSE Resolved("keys", Null, Null, Null, r.keys, Thrown(r))
    [] platform = "ios" ->
         Resolved("keys", Null, Null, Null, Ios_keys(keychain, FALSE), "none")
    [] OTHER -> Resolved("keys", Null, Null, Null, Web_keys(localStorage),
                         "none")

\* C21: in every reachable state in which calls can be made, a key is in
\* the result of keys() if and only if get on that key returns a value that
\* is not null.
KeysAgreeWithGet ==
  (loaded /\ KeysNow.status = "resolved")
    => \A k \in Keys :
         GetNow(k).status = "resolved"
           => ((k \in KeysNow.keys) <=> (GetNow(k).ret # Null))

\* C22: a set or remove call on a key, answered with success or with an
\* error, leaves every other key as it was: its stored entry, the answer
\* of get on it and its membership in the result of keys().
OtherKeysKept ==
  [][\A j \in Keys :
       (last'.op \in {"set", "remove"} /\ last'.key # j)
         => /\ Entry(j)' = Entry(j)
            /\ GetNow(j)' = GetNow(j)
            /\ (j \in KeysNow.keys)' <=> (j \in KeysNow.keys)
    ]_vars

\* A set or remove call changed the entry of its key while another key
\* holds an entry.
WroteBesideOther ==
  /\ last.op \in {"set", "remove"} /\ last.status = "resolved"
  /\ last.key \in Keys /\ last.had
  /\ \E j \in Keys \ {last.key} : Has(j) /\ GetNow(j).ret # Null

\* The answer a read call gives in the current state when the read itself
\* meets no fault.
ReadNow(c) == IF c.op = "get" THEN GetNow(c.key) ELSE KeysNow

\* C23: a get or keys call, whatever it answers, changes neither the
\* stored entries nor the master key, and leaves the answers of get and
\* keys() as they were; the call itself gives that answer, unless the
\* Keychain read failed during it, so a repeated call answers the same.
ReadsChangeNothing ==
  [][last'.op \in {"get", "keys"}
       => /\ Stores' = Stores
          /\ aks' = aks
          /\ \A k \in Keys : GetNow(k)' = GetNow(k)
          /\ KeysNow' = KeysNow
          /\ \/ platform = "ios" /\ last'.log = "SecItemCopyMatching"
             \/ last' = ReadNow(last')
    ]_vars

\* A get call returned the value of a stored key, and get on that key
\* still gives that answer.
ReadTwice ==
  /\ last.op = "get" /\ last.status = "resolved"
  /\ last.key \in Keys /\ last.ret # Null /\ Has(last.key)
  /\ GetNow(last.key) = last

Spec == Init /\ [][Next]_vars

====
